---- MODULE Spec2Model ----
(***************************************************************************)
(* Model of the matching engine: one order book (core/orderbook.py), the   *)
(* stop registry and trade callback (core/storage.py) and the request      *)
(* handlers (routes/orders.py), run by one asyncio event loop.             *)
(*                                                                         *)
(* A step of the model is the code one task runs between two suspension    *)
(* points of the event loop: a wait for the book lock, the awaited         *)
(* broadcasts of the trade callback, the awaited broadcast of a handler.   *)
(* Decimal prices and quantities are integers (units of the smallest       *)
(* price and quantity used); fees are kept in units of 1/10000.            *)
(***************************************************************************)
EXTENDS Integers, Sequences, FiniteSets, TLC

\* Bounds of the model.
MaxOrders == 3
MaxPrice == 2
MaxQty == 2
MaxReqs == 1
MaxInFlight == 2
MaxRequests == 1
MaxStops == 1
MaxTrades == 2
MaxDigits == 10
MaxScale == 8

\* price: Optional[Decimal] -- None
NoPrice == 0
\* a payload field that is None (or the empty string)
Absent == -2
\* a payload string Decimal() cannot parse
Invalid == -1

\* getcontext().prec: the significant digits a Decimal result keeps
prec == 18

\* fee rates, in units of 1/10000
MAKER_FEE_RATE == -2
TAKER_FEE_RATE == 10

\* ids for MaxOrders submitted orders and MaxStops stop orders
MaxIds == MaxOrders + MaxStops
Ids == 1 .. MaxIds
Prices == 1 .. MaxPrice
Qtys == 1 .. MaxQty
Reqs == 1 .. MaxReqs

VARIABLES
    ord,          \* id -> the Order object (side, order_type, quantity, price, remaining)
    asks,         \* OrderBook.asks: price -> PriceLevel (queue of ids, total)
    bids,         \* OrderBook.bids
    orders,       \* OrderBook.orders: the ids in the id index
    trade_seq,    \* OrderBook.trade_seq
    lock,         \* OrderBook.lock: the task holding it, or NoTask
    waiters,      \* OrderBook.lock._waiters: tasks waiting for the lock, in order
    sub,          \* id -> the task running submit_order for that order
    req,          \* slot -> a cancel_order / modify_order request in flight
    stop_orders,  \* storage.stop_orders[symbol]: list of ids
    nextId,       \* the next order id Order.create hands out
    spawned,      \* tasks made by asyncio.create_task that have not run yet, in order
    traded,       \* history: id -> sum of the quantities of the trades naming it
    origQty,      \* history: id -> the quantity the order was created with
    origPrice,    \* history: id -> the price the order was created with
    nreqs,        \* history: number of cancel and modify requests made so far
    nstops,       \* history: number of stop orders placed so far
    registry,     \* storage.stop_orders over all symbols: symbol -> list of ids
    tasks,        \* the resubmissions on_trade_callback created: [id, symbol], in order
    last_trade,   \* the trade last handed to on_trade_callback: [n, symbol, price]
    last_read,    \* the response of the read the last step served, or NoRead
    fees          \* the price and quantity handed to make_trade and the Decimal
                  \* amounts it computed from them, or NoFees

vars == <<ord, asks, bids, orders, trade_seq, lock, waiters, sub, req,
          stop_orders, nextId, spawned, traded, origQty, origPrice, nreqs, nstops,
          registry, tasks, last_trade, last_read, fees>>

NoTask == <<"none", 0>>
SubTask(i) == <<"sub", i>>
ReqTask(k) == <<"req", k>>

NullOrder == [side |-> "none", order_type |-> "none", quantity |-> 0,
              price |-> NoPrice, remaining |-> 0]

\* Order.create: remaining starts as quantity
OrderCreate(side, order_type, quantity, price) ==
    [side |-> side, order_type |-> order_type, quantity |-> quantity,
     price |-> price, remaining |-> quantity]

\* PriceLevel.__init__
EmptyLevel == [queue |-> <<>>, total |-> 0]

IdleSub == [pc |-> "none", kind |-> "none", lvl |-> NoPrice, trades |-> <<>>,
            status |-> "none", reason |-> "none", avail |-> 0, origin |-> 0]
IdleReq == [pc |-> "none", kind |-> "none", oid |-> 0, quantity |-> Absent,
            price |-> Absent, status |-> "none"]

\* ------------------------------------------------------------------------
\* Helpers on values

Min2(a, b) == IF a <= b THEN a ELSE b
SetMin(S) == CHOOSE x \in S : \A y \in S : x <= y
SetMax(S) == CHOOSE x \in S : \A y \in S : x >= y

SeqSet(s) == {s[i] : i \in 1 .. Len(s)}

\* deque.remove(o): drops the first occurrence
RECURSIVE SeqRemove(_, _)
SeqRemove(s, x) ==
    IF s = <<>> THEN <<>>
    ELSE IF Head(s) = x THEN Tail(s)
    ELSE <<Head(s)>> \o SeqRemove(Tail(s), x)

\* container[price] = level
MapPut(m, k, v) == [p \in DOMAIN m \cup {k} |-> IF p = k THEN v ELSE m[p]]
\* del container[price]
MapDel(m, k) == [p \in DOMAIN m \ {k} |-> m[p]]
EmptyMap == [p \in {} |-> EmptyLevel]

\* ------------------------------------------------------------------------
\* The book as a value: the state submit_order reads and writes

Book == [asks |-> asks, bids |-> bids, ord |-> ord, orders |-> orders,
         trade_seq |-> trade_seq, traded |-> traded, origQty |-> origQty,
         origPrice |-> origPrice]

opposite_book(b, side) == IF side = "buy" THEN b.asks ELSE b.bids
same_book(b, side) == IF side = "buy" THEN b.bids ELSE b.asks

SetOpposite(b, side, m) ==
    IF side = "buy" THEN [b EXCEPT !.asks = m] ELSE [b EXCEPT !.bids = m]
SetSame(b, side, m) ==
    IF side = "buy" THEN [b EXCEPT !.bids = m] ELSE [b EXCEPT !.asks = m]

\* _ensure_level
ensure_level(container, price) ==
    IF price \in DOMAIN container THEN container
    ELSE MapPut(container, price, EmptyLevel)

\* a removal that leaves the emptied level in the container
remove_price_never(container, price) == container

\* _remove_price_if_empty
remove_price_if_empty(container, price) ==
    IF price \in DOMAIN container /\ Len(container[price].queue) = 0
    THEN MapDel(container, price)
    ELSE container

\* an add that puts the order at the head of the queue
LevelAddHead(level, id, remaining) ==
    [queue |-> <<id>> \o level.queue, total |-> level.total + remaining]

\* PriceLevel.add
LevelAdd(level, id, remaining) ==
    [queue |-> Append(level.queue, id), total |-> level.total + remaining]

\* get_depth(depth): the [price, total] rows, asks ascending, bids descending
RECURSIVE DepthRows(_, _, _, _)
DepthRows(container, keys, depth, ascending) ==
    IF keys = {} \/ depth <= 0 THEN <<>>
    ELSE LET p == IF ascending THEN SetMin(keys) ELSE SetMax(keys)
         IN <<<<p, container[p].total>>>>
            \o DepthRows(container, keys \ {p}, depth - 1, ascending)

get_depth(b, depth) ==
    [asks |-> DepthRows(b.asks, DOMAIN b.asks, depth, TRUE),
     bids |-> DepthRows(b.bids, DOMAIN b.bids, depth, FALSE)]

\* get_bbo
get_bbo(b) ==
    [best_bid |-> IF DOMAIN b.bids = {} THEN <<>>
                  ELSE LET p == SetMax(DOMAIN b.bids) IN <<p, b.bids[p].total>>,
     best_ask |-> IF DOMAIN b.asks = {} THEN <<>>
                  ELSE LET p == SetMin(DOMAIN b.asks) IN <<p, b.asks[p].total>>]

\* ------------------------------------------------------------------------
\* submit_order: the matcher

NullTrade == [seq |-> 0, price |-> NoPrice, quantity |-> 0, trade_value |-> 0,
              aggressor_side |-> "none", maker |-> 0, taker |-> 0,
              maker_fee |-> 0, taker_fee |-> 0]

\* a make_trade that stamps the trade before trade_seq is incremented
make_tradeStaleSeq(seq, price, qty, maker, taker, aggressor_side) ==
    [seq |-> seq - 1, price |-> price, quantity |-> qty, trade_value |-> price * qty,
     aggressor_side |-> aggressor_side, maker |-> maker, taker |-> taker,
     maker_fee |-> (price * qty) * MAKER_FEE_RATE,
     taker_fee |-> (price * qty) * TAKER_FEE_RATE]

\* make_trade (trade_seq is incremented by the caller below, as in the code's
\* first line of make_trade)
make_trade(seq, price, qty, maker, taker, aggressor_side) ==
    [seq |-> seq, price |-> price, quantity |-> qty, trade_value |-> price * qty,
     aggressor_side |-> aggressor_side, maker |-> maker, taker |-> taker,
     maker_fee |-> (price * qty) * MAKER_FEE_RATE,
     taker_fee |-> (price * qty) * TAKER_FEE_RATE]

is_market(o) == o.order_type = "market"

\* the best price taken from the wrong end of the sorted map
BestOppositeWrongEnd(opp, side) ==
    IF side = "buy" THEN SetMax(DOMAIN opp) ELSE SetMin(DOMAIN opp)

\* best opposite price: peekitem(0) of asks for a buy, peekitem(-1) of bids for a sell
BestOpposite(opp, side) ==
    IF side = "buy" THEN SetMin(DOMAIN opp) ELSE SetMax(DOMAIN opp)

\* every order treated as a market order
price_acceptableAlways(o, best_price) == TRUE

\* price_acceptable
price_acceptable(o, best_price) ==
    IF is_market(o) THEN TRUE
    ELSE IF o.side = "buy" THEN best_price <= o.price
    ELSE best_price >= o.price

\* FOK pre-check: the total the loops of lines 157-174 compute
RECURSIVE FokSum(_, _, _, _)
FokSum(opp, keys, o, all) ==
    IF keys = {} THEN 0
    ELSE LET p == IF all \/ o.side = "buy" THEN SetMin(keys) ELSE SetMax(keys)
         IN IF ~all /\ o.side = "buy" /\ p > o.price THEN 0
            ELSE IF ~all /\ o.side = "sell" /\ p < o.price THEN 0
            ELSE opp[p].total + FokSum(opp, keys \ {p}, o, all)

\* the pre-check summing the whole opposite book whatever the limit price
FokTotalWholeBook(b, t) ==
    LET o == b.ord[t]
        opp == opposite_book(b, o.side)
    IN FokSum(opp, DOMAIN opp, o, TRUE)

FokTotal(b, t) ==
    LET o == b.ord[t]
        opp == opposite_book(b, o.side)
    IN FokSum(opp, DOMAIN opp, o, is_market(o))

\* the pre-check rejecting an exactly sufficient total (<= for <)
FokNotFillableOffByOne(b, t) ==
    LET o == b.ord[t]
        opp == opposite_book(b, o.side)
    IN IF DOMAIN opp = {} THEN TRUE
       ELSE FokTotal(b, t) <= o.quantity

\* FOK pre-check: TRUE when the order is canceled as fok_not_fillable
FokNotFillable(b, t) ==
    LET o == b.ord[t]
        opp == opposite_book(b, o.side)
    IN IF DOMAIN opp = {} THEN TRUE
       ELSE FokTotal(b, t) < o.quantity

\* one pass of the inner loop body, lines 208-222: a trade against the oldest
\* resting order of level best_price
TradeStep(b, t, best_price) ==
    LET o == b.ord[t]
        opp == opposite_book(b, o.side)
        best_level == opp[best_price]
        m == Head(best_level.queue)
        resting == b.ord[m]
        trade_qty == Min2(o.remaining, resting.remaining)
        exec_price == IF resting.price # NoPrice THEN resting.price ELSE best_price
        seq == b.trade_seq + 1
        gone == resting.remaining - trade_qty = 0
        level2 == [queue |-> IF gone THEN Tail(best_level.queue)
                             ELSE best_level.queue,
                   total |-> best_level.total - trade_qty]
        b2 == SetOpposite(b, o.side, [opp EXCEPT ![best_price] = level2])
    IN [b |-> [b2 EXCEPT
                 !.trade_seq = seq,
                 !.ord = [b.ord EXCEPT ![t].remaining = @ - trade_qty,
                                       ![m].remaining = @ - trade_qty],
                 !.orders = IF gone THEN b.orders \ {m} ELSE b.orders,
                 !.traded = [b.traded EXCEPT ![t] = @ + trade_qty,
                                             ![m] = @ + trade_qty]],
        go |-> "callback",
        lvl |-> best_price,
        trade |-> make_trade(seq, exec_price, trade_qty, m, t, o.side)]

\* the matching loop, lines 187-238, run up to the next awaited callback
\* (go = "callback") or to its end (go = "post")
RECURSIVE OuterLoop(_, _), InnerLoop(_, _, _)
OuterLoop(b, t) ==
    LET o == b.ord[t]
        opp == opposite_book(b, o.side)
    IN IF ~(o.remaining > 0) \/ DOMAIN opp = {}
       THEN [b |-> b, go |-> "post", lvl |-> NoPrice, trade |-> NullTrade]
       ELSE LET best_price == BestOpposite(opp, o.side)
            IN IF ~price_acceptable(o, best_price)
               THEN [b |-> b, go |-> "post", lvl |-> NoPrice, trade |-> NullTrade]
               ELSE InnerLoop(b, t, best_price)

InnerLoop(b, t, best_price) ==
    LET o == b.ord[t]
        opp == opposite_book(b, o.side)
    IN IF o.remaining > 0 /\ Len(opp[best_price].queue) > 0
       THEN TradeStep(b, t, best_price)
       ELSE IF Len(opp[best_price].queue) = 0
       THEN OuterLoop(SetOpposite(b, o.side, MapDel(opp, best_price)), t)
       ELSE OuterLoop(b, t)

\* a post-match handling that lets the remainder of every type in rest_types
\* rest on the book
PostMatchResting(b, t, trades, rest_types) ==
    LET o == b.ord[t]
        same == same_book(b, o.side)
        level == ensure_level(same, o.price)[o.price]
        same2 == MapPut(same, o.price, LevelAdd(level, t, o.remaining))
        status == IF o.remaining = 0 THEN "filled"
                  ELSE IF o.order_type = "fok" THEN "canceled"
                  ELSE IF Len(trades) > 0 THEN "partial"
                  ELSE IF o.order_type = "limit" THEN "resting" ELSE "canceled"
    IN [b |-> IF o.remaining > 0 /\ o.order_type \in rest_types
              THEN [SetSame(b, o.side, same2) EXCEPT !.orders = @ \cup {t}]
              ELSE b,
        status |-> status,
        trades |-> IF o.order_type = "fok" /\ o.remaining > 0 THEN <<>> ELSE trades,
        reason |-> "none"]

\* the remainder of a market order rests (at the level keyed by its absent price)
PostMatchMarketRests(b, t, trades) ==
    PostMatchResting(b, t, trades, {"limit", "market"})

\* the remainder of an IOC order rests at its price
PostMatchIocRests(b, t, trades) ==
    PostMatchResting(b, t, trades, {"limit", "ioc"})

\* post-match handling, lines 246-286
PostMatch(b, t, trades) ==
    LET o == b.ord[t]
        same == same_book(b, o.side)
        done(status, list) == [b |-> b, status |-> status, trades |-> list,
                               reason |-> "none"]
    IN IF o.order_type = "ioc"
       THEN IF o.remaining > 0
            THEN done(IF Len(trades) > 0 THEN "partial" ELSE "canceled", trades)
            ELSE done("filled", trades)
       ELSE IF o.order_type = "fok"
       THEN IF o.remaining > 0
            THEN done("canceled", <<>>)
            ELSE done("filled", trades)
       ELSE IF o.remaining > 0 /\ o.order_type = "limit"
       THEN LET level == ensure_level(same, o.price)[o.price]
                same2 == MapPut(same, o.price, LevelAdd(level, t, o.remaining))
            IN [b |-> [SetSame(b, o.side, same2) EXCEPT !.orders = @ \cup {t}],
                status |-> IF Len(trades) = 0 THEN "resting" ELSE "partial",
                trades |-> trades, reason |-> "none"]
       ELSE IF o.remaining > 0
       THEN done(IF Len(trades) > 0 THEN "partial" ELSE "canceled", trades)
       ELSE done("filled", trades)

\* what a task's record becomes when the matching loop stops at r
AfterLoop(r, t, task) ==
    IF r.go = "callback"
    THEN [b |-> r.b,
          task |-> [task EXCEPT !.pc = "callback", !.lvl = r.lvl,
                                !.trades = Append(@, r.trade)]]
    ELSE LET d == PostMatch(r.b, t, task.trades)
         IN [b |-> d.b,
             task |-> [task EXCEPT !.pc = "respond", !.lvl = NoPrice,
                                   !.trades = d.trades, !.status = d.status,
                                   !.reason = d.reason]]

\* submit_order from the moment the lock is taken to the first suspension.  For
\* a FOK order without a price is_market is False (the type is "fok"), so the
\* pre-check of a priced order runs and its first comparison of a level price
\* with order.price = None raises TypeError; the lock is released.
SubmitBody(b, t, task) ==
    IF b.ord[t].order_type = "fok" /\ b.ord[t].price = NoPrice
       /\ DOMAIN opposite_book(b, b.ord[t].side) # {}
    THEN [b |-> b,
          task |-> [task EXCEPT !.pc = "respond", !.status = "error",
                                !.reason = "TypeError", !.trades = <<>>]]
    ELSE IF b.ord[t].order_type = "fok" /\ FokNotFillable(b, t)
    THEN [b |-> b,
          task |-> [task EXCEPT !.pc = "respond", !.status = "canceled",
                                !.reason = "fok_not_fillable", !.trades = <<>>]]
    ELSE AfterLoop(OuterLoop(b, t), t, task)

\* submit_order from the return of an awaited callback to the next suspension
SubmitResume(b, t, task) ==
    AfterLoop(InnerLoop(b, t, task.lvl), t, task)

\* submit_order run from a suspension to its return, when nothing else runs in
\* between and no stop is pending
RECURSIVE SubmitToReturn(_, _, _)
SubmitToReturn(b, t, task) ==
    IF task.pc = "callback"
    THEN LET r == SubmitResume(b, t, task) IN SubmitToReturn(r.b, t, r.task)
    ELSE [b |-> b, task |-> task]

\* ------------------------------------------------------------------------
\* on_trade_callback: the stop trigger scan, run after the awaited broadcasts

\* a trigger condition with strict comparisons
StopTriggersStrict(o, trade_price) ==
    \/ o.side = "buy" /\ trade_price > o.price
    \/ o.side = "sell" /\ trade_price < o.price

\* the trigger condition of one pending stop
StopTriggers(o, trade_price) ==
    \/ o.side = "buy" /\ trade_price >= o.price
    \/ o.side = "sell" /\ trade_price <= o.price

\* triggered_orders: the pending stops the trade fires, in registry order
triggered_orders(b_ord, stops, trade_price) ==
    SelectSeq(stops, LAMBDA i : StopTriggers(b_ord[i], trade_price))

\* the second loop: each fired stop leaves the registry and becomes a market order
FireStops(b_ord, fired) ==
    [i \in Ids |-> IF i \in SeqSet(fired)
                   THEN [b_ord[i] EXCEPT !.order_type = "market"]
                   ELSE b_ord[i]]

\* a fire loop that leaves the fired stops in the registry
RemoveFiredNone(stops, fired) == stops

\* stop_orders[symbol].remove(o) for each fired stop
RemoveFired(stops, fired) ==
    SelectSeq(stops, LAMBDA i : i \notin SeqSet(fired))

\* ------------------------------------------------------------------------
\* History kept for the properties

\* the sum of the level totals of the opposite side at prices the order accepts
RECURSIVE TotalOver(_, _)
TotalOver(container, keys) ==
    IF keys = {} THEN 0
    ELSE LET p == CHOOSE x \in keys : TRUE
         IN container[p].total + TotalOver(container, keys \ {p})

AcceptableTotal(b, t) ==
    LET o == b.ord[t]
        opp == opposite_book(b, o.side)
    IN TotalOver(opp, {p \in DOMAIN opp :
                        \/ o.order_type = "market"
                        \/ o.price = NoPrice
                        \/ o.side = "buy" /\ p <= o.price
                        \/ o.side = "sell" /\ p >= o.price})

\* ------------------------------------------------------------------------
\* State and steps

\* the symbols of the stop registry: S is the symbol of the book modelled here
Symbols == {"S", "T"}
NoRead == [kind |-> "none"]
NoTrade == [n |-> 0, symbol |-> "none", price |-> NoPrice]
NoFees == [pc |-> "none"]

\* a step of the book of S serves no read and leaves the registry of the other
\* symbols alone
Quiet ==
    /\ UNCHANGED <<registry, tasks, last_trade, fees>>
    /\ last_read' = NoRead

Init ==
    /\ fees = NoFees
    /\ registry = [s \in Symbols |-> <<>>]
    /\ tasks = <<>>
    /\ last_trade = NoTrade
    /\ last_read = NoRead
    /\ ord = [i \in Ids |-> NullOrder]
    /\ asks = EmptyMap
    /\ bids = EmptyMap
    /\ orders = {}
    /\ trade_seq = 0
    /\ lock = NoTask
    /\ waiters = <<>>
    /\ sub = [i \in Ids |-> IdleSub]
    /\ req = [k \in Reqs |-> IdleReq]
    /\ stop_orders = <<>>
    /\ nextId = 1
    /\ spawned = <<>>
    /\ traded = [i \in Ids |-> 0]
    /\ origQty = [i \in Ids |-> 0]
    /\ origPrice = [i \in Ids |-> NoPrice]
    /\ nreqs = 0
    /\ nstops = 0

\* An Order object nothing refers to any more (no level queue, not the id index,
\* not the stop registry, no task or handler that holds it) is garbage: its
\* record, and the history kept for it, are dropped by the next step.
InSomeQueue(i) ==
    \/ \E p \in DOMAIN asks : i \in SeqSet(asks[p].queue)
    \/ \E p \in DOMAIN bids : i \in SeqSet(bids[p].queue)

\* the garbage, given the tasks, handlers and stop registry that may hold an order
GarbageOf(sub2, req2, stops2) ==
    {i \in Ids :
        /\ i < nextId
        /\ i \notin orders
        /\ ~InSomeQueue(i)
        /\ i \notin SeqSet(stops2)
        /\ i \notin SeqSet(spawned)
        /\ sub2[i].pc = "none"
        /\ \A k \in Reqs : req2[k].pc \in {"wait", "bcast"} => req2[k].oid # i}

Garbage == GarbageOf(sub, req, stop_orders)

SetBookCollect(b, G) ==
    /\ asks' = b.asks
    /\ bids' = b.bids
    /\ ord' = [i \in Ids |-> IF i \in G THEN NullOrder ELSE b.ord[i]]
    /\ orders' = b.orders
    /\ trade_seq' = b.trade_seq
    /\ traded' = [i \in Ids |-> IF i \in G THEN 0 ELSE b.traded[i]]
    /\ origQty' = [i \in Ids |-> IF i \in G THEN 0 ELSE b.origQty[i]]
    /\ origPrice' = [i \in Ids |-> IF i \in G THEN NoPrice ELSE b.origPrice[i]]

\* a step that runs handler or matcher code: what was garbage before it is dropped
SetBook(b) == SetBookCollect(b, Garbage)

\* the requests in flight: handlers and tasks that have started and not ended
InFlight ==
    Cardinality({i \in Ids : sub[i].pc # "none"})
    + Cardinality({k \in Reqs : req[k].pc # "none"})

\* an acquire that looks at the waiters only, not at the holder
LockFreeIgnoringHolder == waiters = <<>>

\* asyncio.Lock.acquire returns at once: unlocked and nobody waiting
LockFree == lock = NoTask /\ waiters = <<>>
\* a wake-up of the first waiter that does not wait for the release
LockGrantedWhileHeld(task) == waiters # <<>> /\ Head(waiters) = task

\* a release whose wake-up is lost when the waiter is a task made by create_task
LockGrantedWakeLost(task) ==
    /\ lock = NoTask /\ waiters # <<>> /\ Head(waiters) = task
    /\ task[1] = "sub" => sub[task[2]].kind # "stop"

\* the first waiter is woken by release and takes the lock
LockGranted(task) == lock = NoTask /\ waiters # <<>> /\ Head(waiters) = task

\* submit_order entered with the lock taken: runs to its first suspension
EnterSubmit(i, b, kind) ==
    LET task0 == [IdleSub EXCEPT !.kind = kind, !.avail = AcceptableTotal(b, i),
                                 !.origin = sub[i].origin]
        r == SubmitBody(b, i, task0)
    IN /\ SetBook(r.b)
       /\ sub' = [sub EXCEPT ![i] = r.task]
       /\ lock' = IF r.task.pc = "callback" THEN SubTask(i) ELSE NoTask

\* POST /orders for a market, limit, ioc or fok order
SubmitOrder(side, order_type, quantity, price) ==
    /\ nextId <= MaxOrders
    /\ InFlight < MaxInFlight
    /\ order_type = "market" => price = NoPrice
    /\ order_type # "market" => price # NoPrice
    /\ LET i == nextId
           b == [Book EXCEPT !.ord[i] = OrderCreate(side, order_type, quantity, price),
                             !.origQty[i] = quantity, !.origPrice[i] = price]
       IN /\ nextId' = nextId + 1
          /\ IF LockFree
             THEN /\ EnterSubmit(i, b, "order")
                  /\ UNCHANGED waiters
             ELSE /\ SetBook(b)
                  /\ sub' = [sub EXCEPT ![i] = [IdleSub EXCEPT !.pc = "wait",
                                                               !.kind = "order"]]
                  /\ waiters' = Append(waiters, SubTask(i))
                  /\ UNCHANGED lock
    /\ UNCHANGED <<req, stop_orders, spawned, nreqs, nstops>>
    /\ Quiet

\* a submit_order that waited for the lock gets it
SubmitAcquire(i) ==
    /\ sub[i].pc = "wait"
    /\ LockGranted(SubTask(i))
    /\ waiters' = Tail(waiters)
    /\ EnterSubmit(i, Book, sub[i].kind)
    /\ UNCHANGED <<req, stop_orders, nextId, spawned, nreqs, nstops>>
    /\ Quiet

\* the awaited on_trade_callback returns: stop trigger scan, then the matching
\* loop goes on to the next trade or to the return
CallbackResume(i) ==
    /\ sub[i].pc = "callback"
    /\ lock = SubTask(i)
    /\ LET trade == sub[i].trades[Len(sub[i].trades)]
           fired == triggered_orders(ord, stop_orders, trade.price)
           b == [Book EXCEPT !.ord = FireStops(ord, fired)]
           r == SubmitResume(b, i, sub[i])
       IN /\ SetBook(r.b)
          /\ stop_orders' = RemoveFired(stop_orders, fired)
          /\ spawned' = spawned \o fired
          /\ sub' = [j \in Ids |->
                        IF j = i THEN r.task
                        ELSE IF j \in SeqSet(fired)
                        THEN [IdleSub EXCEPT !.pc = "start", !.kind = "stop",
                                             !.origin = i]
                        ELSE sub[j]]
          /\ lock' = IF r.task.pc = "callback" THEN SubTask(i) ELSE NoTask
    /\ UNCHANGED <<waiters, req, nextId, nreqs, nstops>>
    /\ Quiet

\* the task made by create_task starts to run submit_order
StopTaskStart ==
    /\ spawned # <<>>
    /\ LET i == Head(spawned)
       IN /\ spawned' = Tail(spawned)
          /\ IF LockFree
             THEN /\ EnterSubmit(i, Book, "stop")
                  /\ UNCHANGED waiters
             ELSE /\ sub' = [sub EXCEPT ![i].pc = "wait"]
                  /\ waiters' = Append(waiters, SubTask(i))
                  /\ SetBook(Book)
                  /\ UNCHANGED lock
    /\ UNCHANGED <<req, stop_orders, nextId, nreqs, nstops>>
    /\ Quiet

\* submit_order has returned: the handler's broadcast ends and the response
\* goes out (a create_task task just ends)
SubmitRespond(i) ==
    /\ sub[i].pc = "respond"
    /\ sub' = [sub EXCEPT ![i] = IdleSub]
    /\ SetBookCollect(Book, GarbageOf([sub EXCEPT ![i] = IdleSub], req, stop_orders))
    /\ UNCHANGED <<lock, waiters, req, stop_orders, nextId, spawned, nreqs, nstops>>
    /\ Quiet

\* POST /orders for a stoploss order
PlaceStop(side, quantity, price) ==
    /\ nextId <= MaxOrders
    /\ nstops < MaxStops
    /\ nstops' = nstops + 1
    /\ SetBook([Book EXCEPT
                  !.ord[nextId] = OrderCreate(side, "stoploss", quantity, price),
                  !.origQty[nextId] = quantity, !.origPrice[nextId] = price])
    /\ stop_orders' = Append(stop_orders, nextId)
    /\ nextId' = nextId + 1
    /\ UNCHANGED <<lock, waiters, sub, req, spawned, nreqs>>
    /\ Quiet

\* ------------------------------------------------------------------------
\* cancel_order and modify_order (routes/orders.py)

\* the removal that forgets level.total -= o.remaining
RemoveFromLevelKeepTotal(b, oid) ==
    LET o == b.ord[oid]
        container == same_book(b, o.side)
    IN IF o.price \in DOMAIN container
       THEN LET level == container[o.price]
                level2 == [level EXCEPT !.queue = SeqRemove(level.queue, oid)]
            IN SetSame(b, o.side,
                       remove_price_if_empty([container EXCEPT ![o.price] = level2],
                                             o.price))
       ELSE b

\* the part both handlers start with under the lock: take the order out of the
\* queue of the level at order.price, then _remove_price_if_empty
RemoveFromLevel(b, oid) ==
    LET o == b.ord[oid]
        container == same_book(b, o.side)
    IN IF o.price \in DOMAIN container
       THEN LET level == container[o.price]
                level2 == IF oid \in SeqSet(level.queue)
                          THEN [queue |-> SeqRemove(level.queue, oid),
                                total |-> level.total - o.remaining]
                          ELSE level
            IN SetSame(b, o.side,
                       remove_price_if_empty([container EXCEPT ![o.price] = level2],
                                             o.price))
       ELSE b

\* ensure_level called before the price is updated: the order goes back into
\* the level of its old price
ModifyBodyOldLevel(b, oid, quantity, price) ==
    LET b1 == RemoveFromLevel(b, oid)
        old == b.ord[oid].price
        b2 == IF quantity # Absent /\ quantity # Invalid
              THEN [b1 EXCEPT !.ord[oid].quantity = quantity,
                              !.ord[oid].remaining = quantity]
              ELSE b1
        b3 == IF price # Absent /\ price # Invalid
              THEN [b2 EXCEPT !.ord[oid].price = price]
              ELSE b2
        o == b3.ord[oid]
        container == same_book(b3, o.side)
        level == ensure_level(container, old)[old]
    IN IF quantity = Invalid THEN [b |-> b1, status |-> "error"]
       ELSE IF price = Invalid THEN [b |-> b2, status |-> "error"]
       ELSE [b |-> [SetSame(b3, o.side,
                            MapPut(container, old, LevelAdd(level, oid, o.remaining)))
                    EXCEPT !.orders = @ \cup {oid}],
             status |-> "modified"]

\* cancel_order under the lock, up to the awaited broadcast; del book.orders[id]
\* raises KeyError when the id is gone
CancelBody(b, oid) ==
    LET b1 == RemoveFromLevel(b, oid)
    IN IF oid \in b1.orders
       THEN [b |-> [b1 EXCEPT !.orders = @ \ {oid}], status |-> "canceled"]
       ELSE [b |-> b1, status |-> "error"]

\* modify_order under the lock, up to the awaited broadcast; D(payload.x) raises
\* on a string that is no decimal
ModifyBody(b, oid, quantity, price) ==
    LET b1 == RemoveFromLevel(b, oid)
        b2 == IF quantity # Absent /\ quantity # Invalid
              THEN [b1 EXCEPT !.ord[oid].quantity = quantity,
                              !.ord[oid].remaining = quantity]
              ELSE b1
        b3 == IF price # Absent /\ price # Invalid
              THEN [b2 EXCEPT !.ord[oid].price = price]
              ELSE b2
        o == b3.ord[oid]
        container == same_book(b3, o.side)
        level == ensure_level(container, o.price)[o.price]
    IN IF quantity = Invalid THEN [b |-> b1, status |-> "error"]
       ELSE IF price = Invalid THEN [b |-> b2, status |-> "error"]
       ELSE [b |-> [SetSame(b3, o.side,
                            MapPut(container, o.price,
                                   LevelAdd(level, oid, o.remaining)))
                    EXCEPT !.orders = @ \cup {oid}],
             status |-> "modified"]

\* the handler body of request k, entered with the lock taken
EnterRequest(k, r0) ==
    LET r == IF r0.kind = "cancel" THEN CancelBody(Book, r0.oid)
             ELSE ModifyBody(Book, r0.oid, r0.quantity, r0.price)
    IN /\ SetBook(r.b)
       /\ req' = [req EXCEPT ![k] =
                     [IdleReq EXCEPT !.kind = r0.kind, !.oid = r0.oid,
                                     !.status = r.status,
                                     !.pc = IF r.status = "error" THEN "respond"
                                            ELSE "bcast"]]
       /\ lock' = IF r.status = "error" THEN NoTask ELSE ReqTask(k)

\* the handler's lookup, book.orders.get(order_id), then async with book.lock
StartRequest(k, r0) ==
    IF r0.oid \notin orders
    THEN /\ req' = [req EXCEPT ![k] = [IdleReq EXCEPT !.kind = r0.kind,
                                                      !.pc = "respond",
                                                      !.status = "not_found"]]
         /\ SetBook(Book)
         /\ UNCHANGED <<lock, waiters>>
    ELSE IF LockFree
    THEN /\ EnterRequest(k, r0)
         /\ UNCHANGED waiters
    ELSE /\ req' = [req EXCEPT ![k] = [r0 EXCEPT !.pc = "wait"]]
         /\ waiters' = Append(waiters, ReqTask(k))
         /\ SetBook(Book)
         /\ UNCHANGED lock

\* DELETE /order/{order_id}
CancelRequest(k, oid) ==
    /\ req[k].pc = "none"
    /\ oid < nextId
    /\ InFlight < MaxInFlight
    /\ nreqs < MaxRequests
    /\ nreqs' = nreqs + 1
    /\ StartRequest(k, [IdleReq EXCEPT !.kind = "cancel", !.oid = oid])
    /\ UNCHANGED <<sub, stop_orders, nextId, spawned, nstops>>
    /\ Quiet

\* PUT /orders/{order_id}
ModifyRequest(k, oid, quantity, price) ==
    /\ req[k].pc = "none"
    /\ oid < nextId
    /\ InFlight < MaxInFlight
    /\ nreqs < MaxRequests
    /\ quantity = Invalid => price = Absent
    /\ nreqs' = nreqs + 1
    /\ StartRequest(k, [IdleReq EXCEPT !.kind = "modify", !.oid = oid,
                                       !.quantity = quantity, !.price = price])
    /\ UNCHANGED <<sub, stop_orders, nextId, spawned, nstops>>
    /\ Quiet

\* a cancel or modify that waited for the lock gets it
RequestAcquire(k) ==
    /\ req[k].pc = "wait"
    /\ LockGranted(ReqTask(k))
    /\ waiters' = Tail(waiters)
    /\ EnterRequest(k, req[k])
    /\ UNCHANGED <<sub, stop_orders, nextId, spawned, nreqs, nstops>>
    /\ Quiet

\* the awaited broadcast under the lock ends: the handler returns, the lock is
\* released
RequestFinish(k) ==
    /\ req[k].pc = "bcast"
    /\ lock = ReqTask(k)
    /\ lock' = NoTask
    /\ req' = [req EXCEPT ![k] = IdleReq]
    /\ SetBookCollect(Book, GarbageOf(sub, [req EXCEPT ![k] = IdleReq], stop_orders))
    /\ UNCHANGED <<waiters, sub, stop_orders, nextId, spawned, nreqs, nstops>>
    /\ Quiet

\* the 404 or the unhandled exception goes out
RequestRespond(k) ==
    /\ req[k].pc = "respond"
    /\ req' = [req EXCEPT ![k] = IdleReq]
    /\ SetBookCollect(Book, GarbageOf(sub, [req EXCEPT ![k] = IdleReq], stop_orders))
    /\ UNCHANGED <<lock, waiters, sub, stop_orders, nextId, spawned, nreqs, nstops>>
    /\ Quiet

\* ------------------------------------------------------------------------
\* cancel_stop_order and modify_stop_order (routes/orders.py): no lock, no await

\* DELETE /stoporder/{order_id}, for a pending stop
CancelStop(oid) ==
    /\ oid \in SeqSet(stop_orders)
    /\ nreqs < MaxRequests
    /\ nreqs' = nreqs + 1
    /\ stop_orders' = SeqRemove(stop_orders, oid)
    /\ SetBookCollect(Book, GarbageOf(sub, req, SeqRemove(stop_orders, oid)))
    /\ UNCHANGED <<lock, waiters, sub, req, nextId, spawned, nstops>>
    /\ Quiet

\* PUT /stoporder/{order_id}, for a pending stop
ModifyStop(oid, quantity, price) ==
    /\ oid \in SeqSet(stop_orders)
    /\ nreqs < MaxRequests
    /\ quantity = Invalid => price = Absent
    /\ nreqs' = nreqs + 1
    /\ LET o1 == IF quantity # Absent /\ quantity # Invalid
                 THEN [ord[oid] EXCEPT !.quantity = quantity, !.remaining = quantity]
                 ELSE ord[oid]
           o2 == IF quantity # Invalid /\ price # Absent /\ price # Invalid
                 THEN [o1 EXCEPT !.price = price]
                 ELSE o1
       IN SetBook([Book EXCEPT !.ord[oid] = o2])
    /\ UNCHANGED <<lock, waiters, sub, req, stop_orders, nextId, spawned, nstops>>
    /\ Quiet

\* ------------------------------------------------------------------------

Sides == {"buy", "sell"}
LiveTypes == {"market", "limit", "ioc", "fok"}
\* the quantity and price strings a modify payload may carry
ModQtys == {Absent, Invalid} \cup Qtys
ModPrices == {Absent, Invalid} \cup Prices

Next ==
    \/ \E side \in Sides, t \in LiveTypes, q \in Qtys, p \in Prices \cup {NoPrice} :
          SubmitOrder(side, t, q, p)
    \/ \E side \in Sides, q \in Qtys, p \in Prices : PlaceStop(side, q, p)
    \/ \E i \in Ids : SubmitAcquire(i)
    \/ \E i \in Ids : CallbackResume(i)
    \/ StopTaskStart
    \/ \E i \in Ids : SubmitRespond(i)
    \/ \E k \in Reqs, i \in Ids : CancelRequest(k, i)
    \/ \E k \in Reqs, i \in Ids, q \in ModQtys, p \in ModPrices :
          ModifyRequest(k, i, q, p)
    \/ \E k \in Reqs : RequestAcquire(k)
    \/ \E k \in Reqs : RequestFinish(k)
    \/ \E k \in Reqs : RequestRespond(k)
    \/ \E i \in Ids : CancelStop(i)
    \/ \E i \in Ids, q \in ModQtys, p \in ModPrices : ModifyStop(i, q, p)

Spec == Init /\ [][Next]_vars

\* The book of S started with a stop order already pending in the registry (it
\* was placed on the empty book), so that MaxOrders orders can be submitted
\* around it: submits only, no cancel and no modify.
InitStopRun ==
    /\ fees = NoFees
    /\ registry = [s \in Symbols |-> <<>>]
    /\ tasks = <<>>
    /\ last_trade = NoTrade
    /\ last_read = NoRead
    /\ \E side \in Sides, q \in Qtys, p \in Prices :
          /\ ord = [i \in Ids |-> IF i = MaxIds
                                  THEN OrderCreate(side, "stoploss", q, p)
                                  ELSE NullOrder]
          /\ origQty = [i \in Ids |-> IF i = MaxIds THEN q ELSE 0]
          /\ origPrice = [i \in Ids |-> IF i = MaxIds THEN p ELSE NoPrice]
    /\ asks = EmptyMap
    /\ bids = EmptyMap
    /\ orders = {}
    /\ trade_seq = 0
    /\ lock = NoTask
    /\ waiters = <<>>
    /\ sub = [i \in Ids |-> IdleSub]
    /\ req = [k \in Reqs |-> IdleReq]
    /\ stop_orders = <<MaxIds>>
    /\ nextId = 1
    /\ spawned = <<>>
    /\ traded = [i \in Ids |-> 0]
    /\ nreqs = 0
    /\ nstops = MaxStops

NextStopRun ==
    \/ \E side \in Sides, t \in LiveTypes, q \in Qtys, p \in Prices \cup {NoPrice} :
          SubmitOrder(side, t, q, p)
    \/ \E i \in Ids : SubmitAcquire(i)
    \/ \E i \in Ids : CallbackResume(i)
    \/ StopTaskStart
    \/ \E i \in Ids : SubmitRespond(i)

SpecStopRun == InitStopRun /\ [][NextStopRun]_vars

\* The book with a pending stop under fair scheduling.  Market and limit
\* orders are submitted: they run the matching loop, rest, fire the stop and
\* wait for the lock as the other types do.
NextLive ==
    \/ \E side \in Sides, q \in Qtys : SubmitOrder(side, "market", q, NoPrice)
    \/ \E side \in Sides, q \in Qtys, p \in Prices : SubmitOrder(side, "limit", q, p)
    \/ \E i \in Ids : SubmitAcquire(i)
    \/ \E i \in Ids : CallbackResume(i)
    \/ StopTaskStart
    \/ \E i \in Ids : SubmitRespond(i)

\* a step of the event loop: it runs a task that is ready (a waiter the release
\* has woken, a submit whose awaited callback has returned, a task made by
\* create_task, a handler whose broadcast has ended)
Ready ==
    \/ \E i \in Ids : SubmitAcquire(i)
    \/ \E i \in Ids : CallbackResume(i)
    \/ StopTaskStart
    \/ \E i \in Ids : SubmitRespond(i)

\* some task is ready: the condition under which a step Ready is possible
ReadyEnabled ==
    \/ \E i \in Ids : sub[i].pc = "wait" /\ LockGranted(SubTask(i))
    \/ \E i \in Ids : sub[i].pc = "callback" /\ lock = SubTask(i)
    \/ spawned # <<>>
    \/ \E i \in Ids : sub[i].pc = "respond"

\* The event loop does not stop while a task is ready; requests arrive as they
\* please.  This is WF_vars(Ready), written with the condition under which
\* Ready is possible.
Scheduling == []<>(~ReadyEnabled) \/ []<><<Ready>>_vars

SpecLive == InitStopRun /\ [][NextLive]_vars /\ Scheduling

\* the same, with DELETE /stoporder for the pending stop
NextStopCancel ==
    \/ \E side \in Sides, t \in LiveTypes, q \in Qtys, p \in Prices \cup {NoPrice} :
          SubmitOrder(side, t, q, p)
    \/ \E i \in Ids : SubmitAcquire(i)
    \/ \E i \in Ids : CallbackResume(i)
    \/ StopTaskStart
    \/ \E i \in Ids : SubmitRespond(i)
    \/ \E i \in Ids : CancelStop(i)

SpecStopCancel == InitStopRun /\ [][NextStopCancel]_vars

\* ------------------------------------------------------------------------
\* The stop registry over all symbols: stops are placed under their symbol and
\* on_trade_callback is handed trades of either symbol.

\* POST /orders with order_type stoploss for symbol
RegisterStop(symbol, side, quantity, price) ==
    /\ nextId <= MaxOrders
    /\ ord' = [ord EXCEPT ![nextId] = OrderCreate(side, "stoploss", quantity, price)]
    /\ registry' = [registry EXCEPT ![symbol] = Append(@, nextId)]
    /\ nextId' = nextId + 1
    /\ UNCHANGED <<asks, bids, orders, trade_seq, lock, waiters, sub, req,
                   stop_orders, spawned, traded, origQty, origPrice, nreqs, nstops,
                   tasks, last_trade, last_read, fees>>

\* on_trade_callback(trade) for a trade of symbol at price: the scan of
\* stop_orders[trade["symbol"]] and the loop over triggered_orders
OnTrade(symbol, price) ==
    /\ last_trade.n < MaxTrades
    /\ LET fired == triggered_orders(ord, registry[symbol], price)
       IN /\ registry' = [registry EXCEPT ![symbol] = RemoveFired(@, fired)]
          /\ ord' = FireStops(ord, fired)
          /\ tasks' = tasks \o [k \in 1 .. Len(fired) |->
                                   [id |-> fired[k], symbol |-> symbol]]
    /\ last_trade' = [n |-> last_trade.n + 1, symbol |-> symbol, price |-> price]
    /\ UNCHANGED <<asks, bids, orders, trade_seq, lock, waiters, sub, req,
                   stop_orders, nextId, spawned, traded, origQty, origPrice, nreqs,
                   nstops, last_read, fees>>

NextStops ==
    \/ \E symbol \in Symbols, side \in Sides, q \in Qtys, p \in Prices :
          RegisterStop(symbol, side, q, p)
    \/ \E symbol \in Symbols, p \in Prices : OnTrade(symbol, p)

SpecStops == Init /\ [][NextStops]_vars

\* ------------------------------------------------------------------------
\* FOK orders without a price.

\* POST /orders with order_type fok and no price: the handler answers 400, no
\* Order is made and the book is not called
PostFokNoPrice(side, quantity) ==
    /\ nextId <= MaxOrders
    /\ InFlight < MaxInFlight
    /\ sub' = [sub EXCEPT ![nextId] =
                  [IdleSub EXCEPT !.pc = "respond", !.kind = "order",
                                  !.status = "rejected",
                                  !.reason = "fok orders require a price"]]
    /\ nextId' = nextId + 1
    /\ SetBook(Book)
    /\ UNCHANGED <<lock, waiters, req, stop_orders, spawned, nreqs, nstops>>
    /\ Quiet

\* book.submit_order(order, on_trade_callback) called with a FOK order made
\* without a price by Order.create, as a caller of the core can
SubmitFokNoPrice(side, quantity) ==
    /\ nextId <= MaxOrders
    /\ InFlight < MaxInFlight
    /\ LET i == nextId
           b == [Book EXCEPT !.ord[i] = OrderCreate(side, "fok", quantity, NoPrice),
                             !.origQty[i] = quantity, !.origPrice[i] = NoPrice]
       IN /\ nextId' = nextId + 1
          /\ IF LockFree
             THEN /\ EnterSubmit(i, b, "order")
                  /\ UNCHANGED waiters
             ELSE /\ SetBook(b)
                  /\ sub' = [sub EXCEPT ![i] = [IdleSub EXCEPT !.pc = "wait",
                                                               !.kind = "order"]]
                  /\ waiters' = Append(waiters, SubTask(i))
                  /\ UNCHANGED lock
    /\ UNCHANGED <<req, stop_orders, spawned, nreqs, nstops>>
    /\ Quiet

\* limit and market orders through the route, FOK orders without a price
\* through the route and straight to the book
NextFok ==
    \/ \E side \in Sides, q \in Qtys, p \in Prices : SubmitOrder(side, "limit", q, p)
    \/ \E side \in Sides, q \in Qtys : SubmitOrder(side, "market", q, NoPrice)
    \/ \E side \in Sides, q \in Qtys : PostFokNoPrice(side, q)
    \/ \E side \in Sides, q \in Qtys : SubmitFokNoPrice(side, q)
    \/ \E i \in Ids : SubmitAcquire(i)
    \/ \E i \in Ids : CallbackResume(i)
    \/ \E i \in Ids : SubmitRespond(i)

SpecFok == Init /\ [][NextFok]_vars

\* ------------------------------------------------------------------------
\* The read routes (routes/book.py): no lock is taken and nothing is awaited,
\* so a read runs in one step whenever the event loop gets to it.

\* the stop rows of GET /book
StopRows ==
    [k \in 1 .. Len(stop_orders) |->
        LET o == ord[stop_orders[k]]
        IN [order_id |-> stop_orders[k], side |-> o.side, quantity |-> o.remaining,
            trigger_price |-> o.price, order_type |-> o.order_type]]

\* everything but the response of the read
written == <<ord, asks, bids, orders, trade_seq, lock, waiters, sub, req,
             stop_orders, nextId, spawned, traded, origQty, origPrice, nreqs,
             nstops, registry, tasks, last_trade, fees>>

\* GET /book/{symbol}
GetBook(depth) ==
    /\ last_read' = [kind |-> "book", order_book |-> get_depth(Book, depth),
                     stop_orders |-> StopRows]
    /\ UNCHANGED written

\* GET /bbo/{symbol}
GetBbo ==
    /\ last_read' = [kind |-> "bbo", bbo |-> get_bbo(Book)]
    /\ UNCHANGED written

\* the depths a reader asks for (10 is the default)
Depths == {1, 10}

\* submits, cancels and modifies of quantity on the book, with readers
NextReads ==
    \/ \E side \in Sides, t \in LiveTypes, q \in Qtys, p \in Prices \cup {NoPrice} :
          SubmitOrder(side, t, q, p)
    \/ \E i \in Ids : SubmitAcquire(i)
    \/ \E i \in Ids : CallbackResume(i)
    \/ \E i \in Ids : SubmitRespond(i)
    \/ \E k \in Reqs, i \in Ids : CancelRequest(k, i)
    \/ \E k \in Reqs, i \in Ids, q \in Qtys : ModifyRequest(k, i, q, Absent)
    \/ \E k \in Reqs : RequestAcquire(k)
    \/ \E k \in Reqs : RequestFinish(k)
    \/ \E k \in Reqs : RequestRespond(k)
    \/ \E depth \in Depths : GetBook(depth)
    \/ GetBbo

SpecReads == Init /\ [][NextReads]_vars

\* ------------------------------------------------------------------------
\* The Decimal arithmetic of make_trade.  A Decimal is its sign (0 or 1), its
\* coefficient as the sequence of its decimal digits, lowest digit first, and
\* its exponent: the value is (-1)^sign * coefficient * 10^exp.  In the book
\* above quantities and prices are small integers, for which every product is
\* exact; here the operands are long enough for the context to cut a result.

\* the digits of a * d + carry, for one digit d
RECURSIVE MulDigit(_, _, _)
MulDigit(a, d, carry) ==
    IF a = <<>> THEN IF carry = 0 THEN <<>> ELSE <<carry>>
    ELSE LET v == Head(a) * d + carry
         IN <<v % 10>> \o MulDigit(Tail(a), d, v \div 10)

\* the digits of a + b + carry
RECURSIVE AddDigits(_, _, _)
AddDigits(a, b, carry) ==
    IF a = <<>> /\ b = <<>> THEN IF carry = 0 THEN <<>> ELSE <<carry>>
    ELSE LET x == IF a = <<>> THEN 0 ELSE Head(a)
             y == IF b = <<>> THEN 0 ELSE Head(b)
             v == x + y + carry
         IN <<v % 10>> \o AddDigits(IF a = <<>> THEN a ELSE Tail(a),
                                    IF b = <<>> THEN b ELSE Tail(b), v \div 10)

\* a coefficient without leading zeros (zero is the single digit 0)
RECURSIVE StripZeros(_)
StripZeros(a) ==
    IF Len(a) > 1 /\ a[Len(a)] = 0 THEN StripZeros(SubSeq(a, 1, Len(a) - 1))
    ELSE a

\* the exact product of two coefficients
RECURSIVE MulDigits(_, _)
MulDigits(a, b) ==
    IF b = <<>> THEN <<0>>
    ELSE StripZeros(AddDigits(MulDigit(a, Head(b), 0),
                              <<0>> \o MulDigits(a, Tail(b)), 0))

\* a context that rounds away from zero: one is added to the kept digits when
\* a digit that is cut is not zero
FixRoundUp(d) ==
    LET n == Len(d.coef)
    IN IF n > prec
       THEN LET kept == SubSeq(d.coef, n - prec + 1, n)
                cut == SubSeq(d.coef, 1, n - prec)
                up == \E k \in 1 .. Len(cut) : cut[k] # 0
            IN [sign |-> d.sign,
                coef |-> IF up THEN AddDigits(kept, <<1>>, 0) ELSE kept,
                exp |-> d.exp + (n - prec)]
       ELSE d

\* Decimal._fix under prec = 18 and ROUND_DOWN: a coefficient of more than prec
\* digits loses its lowest digits
Fix(d) ==
    LET n == Len(d.coef)
    IN IF n > prec
       THEN [sign |-> d.sign, coef |-> SubSeq(d.coef, n - prec + 1, n),
             exp |-> d.exp + (n - prec)]
       ELSE d

\* Decimal.__mul__: the exact product, then the context
DecMul(x, y) ==
    Fix([sign |-> (x.sign + y.sign) % 2, coef |-> MulDigits(x.coef, y.coef),
         exp |-> x.exp + y.exp])

\* D("-0.0002") and D("0.0010")
MAKER_FEE_RATE_D == [sign |-> 1, coef |-> <<2>>, exp |-> -4]
TAKER_FEE_RATE_D == [sign |-> 0, coef |-> <<0, 1>>, exp |-> -4]

\* make_trade, lines 126-128: trade_value, maker_fee, taker_fee
trade_amounts(price, qty) ==
    LET trade_value == DecMul(price, qty)
    IN [trade_value |-> trade_value,
        maker_fee |-> DecMul(trade_value, MAKER_FEE_RATE_D),
        taker_fee |-> DecMul(trade_value, TAKER_FEE_RATE_D)]

\* the positive Decimals make_trade is given: D(string) keeps every digit of
\* the string, so a price or quantity may be longer than prec allows a result
\* to be.  Coefficients are one digit repeated, up to MaxDigits times.
RepDigits == {1, 5, 9}
Scales == {0, MaxScale}
Positives ==
    {[sign |-> 0, coef |-> [k \in 1 .. n |-> d], exp |-> -e] :
        d \in RepDigits, n \in 1 .. MaxDigits, e \in Scales}

InitFees ==
    /\ \E price \in Positives, quantity \in Positives :
          fees = [pc |-> "input", price |-> price, quantity |-> quantity]
    /\ registry = [s \in Symbols |-> <<>>]
    /\ tasks = <<>>
    /\ last_trade = NoTrade
    /\ last_read = NoRead
    /\ ord = [i \in Ids |-> NullOrder]
    /\ asks = EmptyMap
    /\ bids = EmptyMap
    /\ orders = {}
    /\ trade_seq = 0
    /\ lock = NoTask
    /\ waiters = <<>>
    /\ sub = [i \in Ids |-> IdleSub]
    /\ req = [k \in Reqs |-> IdleReq]
    /\ stop_orders = <<>>
    /\ nextId = 1
    /\ spawned = <<>>
    /\ traded = [i \in Ids |-> 0]
    /\ origQty = [i \in Ids |-> 0]
    /\ origPrice = [i \in Ids |-> NoPrice]
    /\ nreqs = 0
    /\ nstops = 0

\* make_trade(price, qty, ...) computes the amounts of the trade
MakeTrade ==
    /\ fees.pc = "input"
    /\ fees' = [pc |-> "made", price |-> fees.price, quantity |-> fees.quantity,
                trade |-> trade_amounts(fees.price, fees.quantity)]
    /\ UNCHANGED <<ord, asks, bids, orders, trade_seq, lock, waiters, sub, req,
                   stop_orders, nextId, spawned, traded, origQty, origPrice, nreqs,
                   nstops, registry, tasks, last_trade, last_read>>

NextFees == MakeTrade

SpecFees == InitFees /\ [][NextFees]_vars

\* ------------------------------------------------------------------------
\* Properties

RECURSIVE SumQty(_)
SumQty(trades) ==
    IF trades = <<>> THEN 0 ELSE Head(trades).quantity + SumQty(Tail(trades))

RECURSIVE SumRemaining(_)
SumRemaining(queue) ==
    IF queue = <<>> THEN 0 ELSE ord[Head(queue)].remaining + SumRemaining(Tail(queue))

LastTrade(task) == task.trades[Len(task.trades)]

\* the step in which submit_order of order i returns
Returns(i) == sub[i].pc # "respond" /\ sub'[i].pc = "respond"
\* the step in which submit_order of order i makes a trade
Trades(i) == Len(sub'[i].trades) = Len(sub[i].trades) + 1

C3_PriceTimePriority ==
    [][\A i \in Ids :
         Trades(i) =>
            LET tr == LastTrade(sub'[i])
                buy == ord'[i].side = "buy"
                opp == IF buy THEN asks ELSE bids
            IN /\ SubSeq(sub'[i].trades, 1, Len(sub[i].trades)) = sub[i].trades
               /\ tr.taker = i
               /\ \E p \in DOMAIN opp :
                     /\ \E k \in 1 .. Len(opp[p].queue) :
                           /\ opp[p].queue[k] = tr.maker
                           /\ \A k2 \in 1 .. (k - 1) :
                                 ord[opp[p].queue[k2]].remaining <= 0
                     /\ \A p2 \in DOMAIN opp :
                           (IF buy THEN p2 < p ELSE p2 > p) =>
                              \A k \in 1 .. Len(opp[p2].queue) :
                                 ord[opp[p2].queue[k]].remaining <= 0]_vars

\* a taker that traded with order 2 and then with order 1 at one price: order 1
\* had lost its place in the queue
C3_Witness ==
    \E i \in Ids :
        /\ Len(sub[i].trades) = 2
        /\ sub[i].trades[1].maker = 2 /\ sub[i].trades[2].maker = 1
        /\ sub[i].trades[1].price = sub[i].trades[2].price

\* C4: a limit, ioc or fok order never trades at a price worse than its limit,
\* and when it returns with a remainder (other than by the FOK pre-check) the
\* opposite side is empty or its best price is not acceptable.
C4_NeverWorseThanLimit ==
    [][\A i \in Ids :
         LET o == ord'[i]
             priced == o.order_type \in {"limit", "ioc", "fok"}
             opp == IF o.side = "buy" THEN asks' ELSE bids'
         IN /\ (Trades(i) /\ priced) =>
                  IF o.side = "buy" THEN LastTrade(sub'[i]).price <= o.price
                  ELSE LastTrade(sub'[i]).price >= o.price
            /\ (Returns(i) /\ priced /\ o.remaining > 0
                  /\ sub'[i].reason # "fok_not_fillable") =>
                  \/ DOMAIN opp = {}
                  \/ IF o.side = "buy" THEN SetMin(DOMAIN opp) > o.price
                     ELSE SetMax(DOMAIN opp) < o.price]_vars

\* a buy limit order that traded below its limit price
C4_Witness ==
    \E i \in Ids :
        /\ sub[i].trades # <<>>
        /\ ord[i].order_type = "limit" /\ ord[i].side = "buy"
        /\ sub[i].trades[1].price < ord[i].price

\* C5: every trade is made at the maker's own price, which is the key of the
\* level the maker rests in.
C5_TradeAtMakerPrice ==
    [][\A i \in Ids :
         Trades(i) =>
            LET tr == LastTrade(sub'[i])
                opp == IF ord'[i].side = "buy" THEN asks ELSE bids
            IN /\ tr.price = ord[tr.maker].price
               /\ tr.price \in DOMAIN opp
               /\ tr.maker \in SeqSet(opp[tr.price].queue)]_vars

\* a trade with a maker whose price a modify had changed
C5_Witness ==
    \E i \in Ids :
        /\ sub[i].pc = "callback"
        /\ LET tr == LastTrade(sub[i])
           IN /\ origPrice[tr.maker] # NoPrice
              /\ origPrice[tr.maker] # tr.price

\* the book is not crossed: with both sides non-empty, best bid < best ask
NotCrossed(b) ==
    (DOMAIN b.bids # {} /\ DOMAIN b.asks # {}) =>
        SetMax(DOMAIN b.bids) < SetMin(DOMAIN b.asks)

\* C6: whenever a submit returns and both sides of the book are non-empty, the
\* best bid is strictly less than the best ask.
C6_NoCrossAfterSubmit ==
    [][\A i \in Ids : Returns(i) => NotCrossed([bids |-> bids', asks |-> asks'])]_vars

C8_NoEmptyLevel ==
    /\ \A p \in DOMAIN asks : asks[p].queue # <<>>
    /\ \A p \in DOMAIN bids : bids[p].queue # <<>>

\* the places (side, price, position) at which order i is queued
PlacesIn(side, container, i) ==
    UNION {{<<side, p, k>> : k \in {k2 \in DOMAIN container[p].queue :
                                       container[p].queue[k2] = i}} :
           p \in DOMAIN container}

Places(i) == PlacesIn("sell", asks, i) \cup PlacesIn("buy", bids, i)

\* C9: the id index and the level queues agree: every id of the index is queued
\* at exactly one place, on the order's side and at the level of the order's
\* price, and every queued order is in the index.
C9_IndexAgreesWithQueues ==
    /\ \A i \in orders :
          /\ Cardinality(Places(i)) = 1
          /\ \A x \in Places(i) : x[1] = ord[i].side /\ x[2] = ord[i].price
    /\ \A i \in Ids : Places(i) # {} => i \in orders

\* C10: the quantities of the trades naming an order never sum to more than the
\* quantity it was created with, and a submit returns filled exactly when the
\* quantities of its trades sum to the order's quantity.
C10_TradedWithinQuantity ==
    [][/\ \A i \in Ids : traded'[i] <= origQty'[i]
       /\ \A i \in Ids :
             Returns(i) =>
                ((sub'[i].status = "filled")
                    <=> (SumQty(sub'[i].trades) = ord'[i].quantity))]_vars

\* C11: submits on the book are serialised: while a submit is between the start
\* of its matching and its return (suspended in a trade callback) it holds the
\* lock, no other submit is matching or makes a trade, and a step of any other
\* task leaves bids, asks, the id index, the resting orders and trade_seq as
\* they are.
C11_SubmitsSerialised ==
    [][\A i \in Ids :
         sub[i].pc = "callback" =>
            /\ lock = SubTask(i)
            /\ \A j \in Ids \ {i} :
                  /\ sub[j].pc # "callback" /\ sub'[j].pc # "callback"
                  /\ ~Trades(j)
            /\ sub'[i] = sub[i] =>
                  /\ asks' = asks /\ bids' = bids /\ orders' = orders
                  /\ trade_seq' = trade_seq
                  /\ \A x \in orders : ord'[x] = ord[x]]_vars

\* a submit suspended in its callback after a trade while a second submit, whose
\* side is the same so that it would take the same resting orders, waits
C11_Witness ==
    \E i, j \in Ids :
        /\ i # j
        /\ sub[i].pc = "callback"
        /\ sub[j].pc = "wait"
        /\ ord[j].side = ord[i].side
        /\ (IF ord[i].side = "buy" THEN asks ELSE bids) # EmptyMap
        /\ orders # {}

\* C13: the resubmission of a triggered stop matches only after the submit
\* whose trade triggered it has returned and released the lock: whenever the
\* stop's task is matching, makes a trade or has returned, the originating
\* submit is past its return and does not hold the lock.
C13_StopMatchesAfterOrigin ==
    [][\A s \in Ids :
         (sub'[s].kind = "stop"
            /\ (Trades(s) \/ sub'[s].pc \in {"callback", "respond"})) =>
            LET o == sub'[s].origin
            IN /\ o \in Ids
               /\ sub[o].pc \in {"respond", "none"}
               /\ sub'[o].pc \in {"respond", "none"}
               /\ ~Trades(o)
               /\ lock # SubTask(o) /\ lock' # SubTask(o)]_vars

\* the task of a fired stop has made a trade while the handler of the submit
\* that fired it, which made two trades, has not yet sent its response
C13_Witness ==
    \E s \in Ids :
        /\ sub[s].kind = "stop"
        /\ sub[s].pc = "callback"
        /\ Len(sub[s].trades) >= 1
        /\ sub[s].origin \in Ids
        /\ sub[sub[s].origin].pc = "respond"
        /\ Len(sub[sub[s].origin].trades) = 2

\* the order is in no level queue and not in the id index
OffBook(i) == i \notin orders /\ Places(i) = {}

\* the prices of a trade list never get better for the taker from one trade to
\* the next: the levels are swept from the best price outwards
SweepsOutwards(side, trades) ==
    \A x, y \in 1 .. Len(trades) :
        x < y => IF side = "buy" THEN trades[x].price <= trades[y].price
                 ELSE trades[x].price >= trades[y].price

C15_LimitDisposition ==
    [][\A i \in Ids :
         (Returns(i) /\ ord'[i].order_type = "limit") =>
            LET o == ord'[i]
                t == sub'[i].trades
                same == IF o.side = "buy" THEN bids' ELSE asks'
            IN /\ o.remaining = o.quantity - SumQty(t)
               /\ sub'[i].avail = 0 => sub'[i].status = "resting" /\ t = <<>>
               /\ o.remaining > 0 =>
                     /\ o.price \in DOMAIN same
                     /\ Places(i)' = {<<o.side, o.price, Len(same[o.price].queue)>>}
                     /\ i \in orders'
                     /\ sub'[i].status = IF t = <<>> THEN "resting" ELSE "partial"
               /\ o.remaining = 0 => sub'[i].status = "filled" /\ OffBook(i)']_vars

\* a limit order has returned partial: it traded and its remainder rests
C15_Witness ==
    \E i \in Ids :
        /\ sub[i].pc = "respond"
        /\ ord[i].order_type = "limit"
        /\ sub[i].status = "partial"
        /\ Len(sub[i].trades) >= 1
        /\ Places(i) # {}
        /\ i \in orders

C12_StopsFireExactly ==
    [][last_trade'.n # last_trade.n =>
         LET S == last_trade'.symbol
             p == last_trade'.price
             holds(i) == \/ ord[i].side = "buy" /\ p >= ord[i].price
                         \/ ord[i].side = "sell" /\ p <= ord[i].price
             new == SubSeq(tasks', Len(tasks) + 1, Len(tasks'))
             resubmitted(i) == Cardinality({k \in 1 .. Len(new) : new[k].id = i})
         IN /\ SubSeq(tasks', 1, Len(tasks)) = tasks
            /\ \A k \in 1 .. Len(new) : new[k].symbol = S
            /\ \A i \in SeqSet(registry[S]) :
                  IF holds(i)
                  THEN /\ i \notin SeqSet(registry'[S])
                       /\ ord'[i] = [ord[i] EXCEPT !.order_type = "market"]
                       /\ resubmitted(i) = 1
                  ELSE /\ i \in SeqSet(registry'[S])
                       /\ ord'[i] = ord[i]
                       /\ resubmitted(i) = 0
            /\ registry'[S] = SelectSeq(registry[S], LAMBDA i : ~holds(i))
            /\ \A T \in Symbols \ {S} :
                  /\ registry'[T] = registry[T]
                  /\ \A i \in SeqSet(registry[T]) :
                        ord'[i] = ord[i] /\ resubmitted(i) = 0]_vars

\* after a trade of one symbol: a stop of it was fired, another stop of it is
\* still pending, and a stop of the other symbol whose condition the trade
\* price meets is still pending
C12_Witness ==
    /\ last_trade.n >= 1
    /\ \E k \in 1 .. Len(tasks) :
          tasks[k].symbol = last_trade.symbol
          /\ ord[tasks[k].id].order_type = "market"
    /\ registry[last_trade.symbol] # <<>>
    /\ \E T \in Symbols \ {last_trade.symbol} :
          \E i \in SeqSet(registry[T]) :
              /\ ord[i].order_type = "stoploss"
              /\ \/ ord[i].side = "buy" /\ last_trade.price >= ord[i].price
                 \/ ord[i].side = "sell" /\ last_trade.price <= ord[i].price

\* POST /orders for a limit order on the book as it is now, run to its return,
\* and then DELETE /order/{id} for it: the book after both, and what each
\* request answered
SubmitThenCancel(side, quantity, price) ==
    LET i == nextId
        b0 == [Book EXCEPT !.ord[i] = OrderCreate(side, "limit", quantity, price)]
        s0 == SubmitBody(b0, i, IdleSub)
        s1 == SubmitToReturn(s0.b, i, s0.task)
        c == IF i \in s1.b.orders THEN CancelBody(s1.b, i)
             ELSE [b |-> s1.b, status |-> "not_found"]
    IN [submitted |-> s1.task.status, canceled |-> c.status, b |-> c.b]

\* the levels, totals, queues and id index of b are those of the current book
SameBook(b) == b.asks = asks /\ b.bids = bids /\ b.orders = orders

\* the book is idle: no handler holds or waits for the lock (and an id is left
\* for one more order)
Idle == LockFree /\ nextId \in Ids

ModifyTakesEffect(k) ==
    /\ req[k].pc \in {"none", "wait"}
    /\ req'[k].pc = "bcast"
    /\ req'[k].kind = "modify"

\* every level of both sides keeps its total
SameTotals ==
    /\ DOMAIN asks' = DOMAIN asks /\ DOMAIN bids' = DOMAIN bids
    /\ \A p \in DOMAIN asks : asks'[p].total = asks[p].total
    /\ \A p \in DOMAIN bids : bids'[p].total = bids[p].total

\* C18: a modify of a resting order that leaves its price and quantity as they
\* are leaves every level total of both sides identical and puts the order
\* last in the queue of its level, behind the other orders in their order.
C18_ModifyUnchangedMovesToTail ==
    [][\A k \in Reqs :
         LET x == req'[k].oid
         IN (/\ ModifyTakesEffect(k)
             /\ x \in orders
             /\ Cardinality(Places(x)) = 1
             /\ ord'[x].price = ord[x].price
             /\ ord'[x].quantity = ord[x].quantity) =>
               LET same == IF ord[x].side = "buy" THEN bids ELSE asks
                   same2 == IF ord[x].side = "buy" THEN bids' ELSE asks'
                   p == ord[x].price
               IN /\ SameTotals
                  /\ same2[p].queue = Append(SeqRemove(same[p].queue, x), x)]_vars

\* the step in which the cancel of request k has its outcome
CancelTakesEffect(k) ==
    /\ req[k].pc \in {"none", "wait"}
    /\ req'[k].pc \in {"bcast", "respond"}
    /\ req'[k].kind = "cancel"

\* C19: a cancel whose order is not resting when the cancel takes effect (the
\* id is in no queue and not in the id index, also when it was still resting
\* at the time the request looked it up and waited for the lock) ends with the
\* not-found outcome and leaves the book as it is.
C19_CancelOfAbsentIsNotFound ==
    [][\A k \in Reqs :
         (/\ CancelTakesEffect(k)
          /\ \/ req'[k].pc = "respond"
             \/ req[k].pc = "wait" /\ OffBook(req[k].oid)) =>
            /\ req'[k].status = "not_found"
            /\ asks' = asks /\ bids' = bids /\ orders' = orders
            /\ trade_seq' = trade_seq]_vars

\* C20: a read (GET /book, GET /bbo) is served only while no submit, cancel or
\* modify is between its start and its return, that is, while no handler holds
\* the book's lock.
C20_ReadsUnderLock ==
    [][last_read'.kind # "none" =>
         /\ lock = NoTask
         /\ \A i \in Ids : sub[i].pc # "callback"
         /\ \A k \in Reqs : req[k].pc # "bcast"]_vars

\* the submits that make a trade in the step
Traders == {i \in Ids : Trades(i)}

\* the sequence numbers carried by the trades of the submits in flight
SeqsInFlight ==
    UNION {{sub[i].trades[n].seq : n \in 1 .. Len(sub[i].trades)} : i \in Ids}

\* C21: trade_seq never decreases and grows by exactly one in a step that emits
\* a trade (a step emits at most one); the trade carries the new value, which
\* is above the sequence number of every trade made before, whatever the
\* interleaving of submits and of resubmitted stops.
C21_TradeSeqMonotonic ==
    [][/\ trade_seq' >= trade_seq
       /\ trade_seq' - trade_seq = Cardinality(Traders)
       /\ \A i \in Traders :
             /\ LastTrade(sub'[i]).seq = trade_seq + 1
             /\ \A n \in SeqsInFlight : n < LastTrade(sub'[i]).seq
             /\ LastTrade(sub'[i]).seq <= trade_seq']_vars

\* a resubmitted stop makes the second or a later trade of the book while the
\* submit whose trade fired it has not yet answered
C21_Witness ==
    \E i \in Ids :
        /\ sub[i].kind = "stop" /\ sub[i].trades # <<>>
        /\ LastTrade(sub[i]).seq = trade_seq /\ trade_seq >= 2
        /\ sub[sub[i].origin].pc = "respond"

\* the number a short coefficient stands for
RECURSIVE ValueOf(_)
ValueOf(a) == IF a = <<>> THEN 0 ELSE Head(a) + 10 * ValueOf(Tail(a))

\* a <= b for coefficients without leading zeros
RECURSIVE DigitsLeq(_, _)
DigitsLeq(a, b) ==
    IF Len(a) # Len(b) THEN Len(a) < Len(b)
    ELSE IF a = <<>> THEN TRUE
    ELSE IF a[Len(a)] # b[Len(b)] THEN a[Len(a)] < b[Len(b)]
    ELSE DigitsLeq(SubSeq(a, 1, Len(a) - 1), SubSeq(b, 1, Len(b) - 1))

\* the coefficient a * 10^k
Shifted(a, k) == [j \in 1 .. k |-> 0] \o a

\* r is x * y in the arithmetic of the context: the sign of the product, at most
\* prec digits, the exact product when that has at most prec digits, and else
\* the exact product cut towards zero: r <= |x * y| < r + one unit of r's last
\* place
IsProduct(r, x, y) ==
    LET exact == MulDigits(x.coef, y.coef)
        k == r.exp - (x.exp + y.exp)
    IN /\ r.sign = (x.sign + y.sign) % 2
       /\ Len(r.coef) <= prec
       /\ r.coef = StripZeros(r.coef)
       /\ k >= 0
       /\ (Len(exact) <= prec) => (k = 0 /\ r.coef = exact)
       /\ (Len(exact) > prec) => Len(r.coef) = prec
       /\ DigitsLeq(Shifted(r.coef, k), exact)
       /\ ~DigitsLeq(Shifted(StripZeros(AddDigits(r.coef, <<1>>, 0)), k), exact)
       /\ (Len(x.coef) + Len(y.coef) <= 9) =>
              ValueOf(exact) = ValueOf(x.coef) * ValueOf(y.coef)

\* C22: for the amounts make_trade computes from a positive price and quantity,
\* trade_value is price * quantity, maker_fee is trade_value * -0.0002 and
\* taker_fee is trade_value * 0.0010, each product taken in the arithmetic of
\* the context (18 digits, cut towards zero); maker_fee is below zero and
\* taker_fee above.
C22_FeesOfTrade ==
    fees.pc = "made" =>
        LET t == fees.trade
        IN /\ IsProduct(t.trade_value, fees.price, fees.quantity)
           /\ IsProduct(t.maker_fee, t.trade_value, MAKER_FEE_RATE_D)
           /\ IsProduct(t.taker_fee, t.trade_value, TAKER_FEE_RATE_D)
           /\ t.trade_value.sign = 0
           /\ t.maker_fee.sign = 1 /\ t.maker_fee.coef # <<0>>
           /\ t.taker_fee.sign = 0 /\ t.taker_fee.coef # <<0>>

\* a trade whose value and whose maker fee both lose digits that are not zero
C22_Witness ==
    /\ fees.pc = "made"
    /\ LET t == fees.trade
           exact == MulDigits(fees.price.coef, fees.quantity.coef)
           fee == MulDigits(t.trade_value.coef, MAKER_FEE_RATE_D.coef)
       IN /\ Len(exact) > prec /\ exact[1] # 0
          /\ Len(fee) > prec /\ fee[1] # 0

\* order i has been filled in full: nothing remains of what it traded
FullyFilled(i) == traded[i] > 0 /\ ord[i].remaining = 0

\* a cancel of order i has its status canceled
CancelReturned(i) ==
    \E k \in Reqs : /\ req[k].kind = "cancel" /\ req[k].oid = i
                    /\ req[k].status = "canceled"

\* order i is the maker or the taker of a trade made in the step
TradesIn(i) ==
    \E j \in Traders : LastTrade(sub'[j]).maker = i \/ LastTrade(sub'[j]).taker = i

\* C23: an order that has been fully filled, or whose cancel has returned
\* canceled, is in no level queue and not in the id index, and stays so in
\* the next state and makes no trade in the step, also when a cancel or a
\* modify that looked it up before taking the lock runs afterwards.
C23_FilledOrCanceledStaysGone ==
    [][\A i \in Ids :
         ((FullyFilled(i) \/ CancelReturned(i)) /\ OffBook(i)) =>
            (OffBook(i)' /\ ~TradesIn(i))]_vars

\* the stops the step hands to create_task
NewlyFired ==
    IF Len(spawned') > Len(spawned)
    THEN SeqSet(SubSeq(spawned', Len(spawned) + 1, Len(spawned')))
    ELSE {}

\* the stops that leave the registry in the step
LeavesRegistry == SeqSet(stop_orders) \ SeqSet(stop_orders')

\* C24: a stop ends once and in one way.  A stop that is fired was pending in
\* the registry and leaves it in that step, had no task before (neither
\* waiting to start nor running) and has never traded; it is fired once in the
\* step; a stop that leaves the registry otherwise (cancel-stop) gets no task;
\* a task that starts or runs belongs to no pending stop; and no id returns to
\* the registry once it has left it.
C24_StopEndsOnce ==
    [][/\ \A i \in NewlyFired :
             /\ i \in LeavesRegistry
             /\ i \notin SeqSet(spawned)
             /\ sub[i].pc = "none" /\ sub'[i].pc = "start"
             /\ traded[i] = 0
             /\ ord'[i].order_type = "market"
       /\ Len(spawned') - Len(spawned) = Cardinality(NewlyFired)
          \/ Len(spawned') < Len(spawned)
       /\ \A i \in LeavesRegistry \ NewlyFired :
             i \notin SeqSet(spawned') /\ sub'[i].pc = "none"
       /\ \A i \in Ids : (sub'[i].kind = "stop" \/ i \in SeqSet(spawned')) =>
                            i \notin SeqSet(stop_orders')
       /\ \A i \in SeqSet(stop_orders') \ SeqSet(stop_orders) : i = nextId]_vars

\* a submit has made two trades that both satisfy the trigger of a stop, which
\* the first of them fired: the stop's task exists and has not started
C24_Witness ==
    \E i \in Ids :
        /\ sub[i].pc = "start" /\ i \in SeqSet(spawned)
        /\ LET o == sub[i].origin
           IN /\ Len(sub[o].trades) = 2
              /\ StopTriggers(ord[i], sub[o].trades[1].price)
              /\ StopTriggers(ord[i], sub[o].trades[2].price)

\* the step changes the stop registry: a stop enters or leaves the list, or a
\* pending stop is changed
RegistryMutated ==
    \/ stop_orders' # stop_orders
    \/ \E i \in SeqSet(stop_orders) \cap SeqSet(stop_orders') : ord'[i] # ord[i]

\* C25: a step that changes the stop registry (a stop placed, cancelled,
\* modified, or removed because it fired) is a step of the task that holds the
\* lock of the book.
C25_RegistryUnderLock ==
    [][RegistryMutated =>
         /\ lock # NoTask
         /\ lock[1] = "sub" => sub'[lock[2]] # sub[lock[2]]
         /\ lock[1] = "req" => req'[lock[2]] # req[lock[2]]]_vars

ReturnsFokNoPrice(i) ==
    /\ Returns(i)
    /\ \/ ord'[i].order_type = "fok" /\ ord'[i].price = NoPrice
       \/ sub'[i].status = "rejected"

\* C27: a FOK order submitted without a price is filled, by trades that sum to
\* its quantity, when the level totals of the whole opposite book at the time
\* it is taken up sum to at least its quantity, and is canceled with reason
\* fok_not_fillable and no trades otherwise.
C27_MarketFokWholeBook ==
    [][\A i \in Ids :
         ReturnsFokNoPrice(i) =>
            LET whole == IF sub[i].pc = "callback" THEN sub[i].avail
                         ELSE TotalOver(opposite_book(Book, ord'[i].side),
                                        DOMAIN opposite_book(Book, ord'[i].side))
            IN /\ ord'[i].order_type = "fok"
               /\ IF whole >= ord'[i].quantity
                  THEN /\ sub'[i].status = "filled"
                       /\ SumQty(sub'[i].trades) = ord'[i].quantity
                  ELSE /\ sub'[i].status = "canceled"
                       /\ sub'[i].reason = "fok_not_fillable"
                       /\ sub'[i].trades = <<>>
                       /\ asks' = asks /\ bids' = bids]_vars

====
